---- MODULE Spec2Model ----
(***************************************************************************)
(* Topic-map generation and validation pipeline.                           *)
(*                                                                         *)
(*   services/ai_service.py   _clean_json_response, _parse_json,           *)
(*                            _call_claude, generate_topic_map             *)
(*   models/topic_map.py      validate_entry, validate_topic_map           *)
(*   app.py                   _check_api_keys, main, _run_generation       *)
(*   services/research_service.py  perform_research (key guard)            *)
(*                                                                         *)
(* Text is a sequence of tokens.  A token is one lexical unit of an LLM    *)
(* response: a JSON punctuation character, a whitespace character, a       *)
(* Markdown fence, the tag "json", a number literal, a run of non-JSON     *)
(* prose, or the complete member text of one JSON object (a "body", named  *)
(* by the entry it decodes to).                                            *)
(***************************************************************************)
EXTENDS Integers, Sequences, FiniteSets, TLC

(***************************************************************************)
(* Bounds of the model (not program constants).                            *)
(***************************************************************************)
MaxEntries == 3      \* longest entry list handed to the validator directly
MaxRequests == 2     \* generation requests made in one application session
NWorkers == 2        \* generate_topic_map invocations running at the same time

(***************************************************************************)
(* Program constants.                                                      *)
(***************************************************************************)
MaxAttempts == 3         \* for attempt in range(3)
LastRetryAttempt == 2    \* if attempt < 2: sleep, else raise
BackoffBase == 2         \* wait_time = 2 ** (attempt + 1)
FixOutputChars == 8000   \* raw_response[:8000]
LastChunkChars == 500    \* raw_response[-500:]
ContinuationMin == 10    \* len(continuation_entries) > 10
MaxCritical == 10        \* critical_errors[:10]
PriorityMin == 1
PriorityMax == 5
EntitiesMin == 3
EntitiesMax == 5
PaaMin == 2
CitationsMin == 1

(***************************************************************************)
(* Small helpers.                                                          *)
(***************************************************************************)
Min(a, b) == IF a < b THEN a ELSE b
Take(s, n) == SubSeq(s, 1, Min(n, Len(s)))

RECURSIVE Pow(_, _)
Pow(b, e) == IF e = 0 THEN 1 ELSE b * Pow(b, e - 1)

RECURSIVE Replicate(_, _)
Replicate(x, n) == IF n = 0 THEN <<>> ELSE <<x>> \o Replicate(x, n - 1)

(***************************************************************************)
(* Tokens.                                                                 *)
(***************************************************************************)
WS == {"sp", "nl"}                    \* characters matched by \s / strip()
Closers == {"]", "}"}

(***************************************************************************)
(* Entries (models/topic_map.py).  A decoded JSON object is a record: the  *)
(* set of keys it has, and the values of the keys the validator reads.     *)
(* The five remaining required keys are only tested for presence.          *)
(***************************************************************************)
required_fields ==
    << "level", "content_title", "primary_keyword", "user_intent",
       "semantic_entities", "content_type", "rag_directions", "paa_questions",
       "citations", "parent_topic", "priority_score", "word_count_range",
       "internal_link_targets" >>

AllFields == { required_fields[i] : i \in 1..Len(required_fields) }

VALID_LEVELS == {"Pillar", "Cluster", "Spoke"}

VALID_INTENTS ==
    {"Informational", "Navigational", "Commercial Investigation", "Transactional"}

\* JSON values of priority_score: an integer, true/false (a bool is an int
\* for isinstance), or something else (a string, a float).
IntV(n) == [t |-> "int", n |-> n]
BoolV(n) == [t |-> "bool", n |-> n]
StrV == [t |-> "str", n |-> 0]
\* JSON values of the list-valued fields: a list of some length, or not a list.
ListV(n) == [isList |-> TRUE, len |-> n]
NonList == [isList |-> FALSE, len |-> 0]

Base(level, title, parent) ==
    [ keys |-> AllFields, level |-> level, content_title |-> title,
      user_intent |-> "Informational", priority_score |-> IntV(3),
      semantic_entities |-> ListV(3), paa_questions |-> ListV(2),
      citations |-> ListV(1), parent_topic |-> parent ]

\* Titles used by the catalogue.  NoticeTitle is a title whose text contains
\* the words of the validator's missing-field notice.
PillarTitle == "Guide"
ClusterTitle == "Basics"
NoticeTitle == "Fix: Missing required field errors"
\* A title whose text has a comma, a blank and a closing bracket in a row,
\* and the same title without that comma and blank.
CommaInTitle == "Lists [a, b, ]"
CommaDropped == "Lists [a, b]"

\* The catalogue of decoded array elements, by name.  A body token of a
\* response carries the name of the object it decodes to.
Entry(b) ==
    CASE b = "P"     -> Base("Pillar", PillarTitle, "")
      [] b = "P2"    -> Base("Pillar", "Handbook", "")
      [] b = "Pi"    -> [Base("Pillar", "Primer", "") EXCEPT !.user_intent = "Curious"]
      [] b = "C"     -> Base("Cluster", ClusterTitle, PillarTitle)
      [] b = "C0"    -> Base("Cluster", "Tools", "")
      [] b = "Cx"    -> Base("Cluster", "Costs", "Handbook")
      [] b = "S"     -> Base("Spoke", "Intro", ClusterTitle)
      [] b = "S0"    -> Base("Spoke", "Recap", "")
      [] b = "Sx"    -> Base("Spoke", "Extras", "Nowhere")
      [] b = "Sp"    -> Base("Spoke", "Plans", PillarTitle)
      [] b = "H"     -> Base("Hub", "Hubs", "")
      [] b = "S_p0"  -> [Base("Spoke", "Zero", "") EXCEPT !.priority_score = IntV(0)]
      [] b = "S_p1"  -> [Base("Spoke", "One", "") EXCEPT !.priority_score = IntV(1)]
      [] b = "S_p5"  -> [Base("Spoke", "Five", "") EXCEPT !.priority_score = IntV(5)]
      [] b = "S_p6"  -> [Base("Spoke", "Six", "") EXCEPT !.priority_score = IntV(6)]
      [] b = "S_ps"  -> [Base("Spoke", "Text", "") EXCEPT !.priority_score = StrV]
      [] b = "S_pt"  -> [Base("Spoke", "True", "") EXCEPT !.priority_score = BoolV(1)]
      [] b = "S_e2"  -> [Base("Spoke", "Two", "") EXCEPT !.semantic_entities = ListV(2)]
      [] b = "S_e6"  -> [Base("Spoke", "Many", "") EXCEPT !.semantic_entities = ListV(6)]
      [] b = "S_en"  -> [Base("Spoke", "Flat", "") EXCEPT !.semantic_entities = NonList]
      [] b = "S_q1"  -> [Base("Spoke", "Ask", "") EXCEPT !.paa_questions = ListV(1)]
      [] b = "S_c0"  -> [Base("Spoke", "Bare", "") EXCEPT !.citations = ListV(0)]
      [] b = "N"     -> [Base("Spoke", NoticeTitle, "") EXCEPT !.user_intent = "Curious"]
      [] b = "Q"     -> Base("Spoke", CommaInTitle, ClusterTitle)
      [] b = "Qc"    -> Base("Spoke", CommaDropped, ClusterTitle)
      [] b = "M1"    -> [Base("Cluster", "Gap", PillarTitle)
                           EXCEPT !.keys = AllFields \ {"citations"}]
      [] b = "M2"    -> [Base("Pillar", "", "")
                           EXCEPT !.keys = AllFields \ {"content_title", "priority_score"},
                                  !.user_intent = "Curious"]
      [] b = "M3"    -> [Base("", "Void", "")
                           EXCEPT !.keys = AllFields \ {"level", "user_intent", "parent_topic"}]
      [] b = "empty" -> [Base("", "", "") EXCEPT !.keys = {}]
      [] OTHER       -> [Base("", "", "") EXCEPT !.keys = {}]

\* Elements of a decoded array that are not JSON objects.
NonDicts == {"num", "list"}
IsDict(b) == b \notin NonDicts

\* dict.get(key, default)
Get(e, f, default) == IF f \in e.keys THEN e[f] ELSE default

(***************************************************************************)
(* Validator messages.  A message is the f-string the code builds, kept in *)
(* its parts: the literal notice (kind), the values interpolated into it   *)
(* (strs, nums), and the "Entry {i} ({title}): " prefix validate_topic_map *)
(* puts in front of per-entry messages (idx = -1: no prefix).              *)
(***************************************************************************)
MISSING == "Missing required field"
PILLAR_COUNT == "Expected exactly 1 Pillar"
INVALID_LEVEL == "Invalid level"
INVALID_INTENT == "Invalid user_intent"
INVALID_SCORE == "Invalid priority_score"
ENTITIES_RANGE == "semantic_entities must have 3-5 items"
PAA_MIN == "paa_questions must have at least 2 items"
CITATIONS_MIN == "citations must have at least 1 item"
CLUSTER_PARENT == "Cluster parent_topic does not match Pillar title"
SPOKE_PARENT == "Spoke parent_topic does not match any Cluster title"

EntryMsg(kind, strs, nums) == [kind |-> kind, strs |-> strs, nums |-> nums]
Prefixed(i, title, m) ==
    [idx |-> i, title |-> title, kind |-> m.kind, strs |-> m.strs, nums |-> m.nums]
Structural(kind, strs, nums) ==
    [idx |-> -1, title |-> "", kind |-> kind, strs |-> strs, nums |-> nums]

\* errors.append(x) under a condition
When(cond, m) == IF cond THEN <<m>> ELSE <<>>

\* isinstance(score, int): bool is a subclass of int
IsInstanceInt(v) == v.t \in {"int", "bool"}

\* A slip: the loop stops at the first absent field.
MissingFrom_first(e, k) ==
    LET absent == { j \in k..Len(required_fields) : required_fields[j] \notin e.keys }
    IN  IF absent = {} THEN <<>>
        ELSE LET j == CHOOSE j \in absent : \A i \in absent : j <= i
             IN  <<EntryMsg(MISSING, <<required_fields[j]>>, <<>>)>>

\* for f in required_fields: if f not in entry: errors.append(...)
RECURSIVE MissingFrom(_, _)
MissingFrom(e, k) ==
    IF k > Len(required_fields) THEN <<>>
    ELSE When(required_fields[k] \notin e.keys,
              EntryMsg(MISSING, <<required_fields[k]>>, <<>>))
         \o MissingFrom(e, k + 1)

\* if not errors: the value checks, in source order
ValueChecks(e) ==
    LET score == Get(e, "priority_score", IntV(0))
        entities == Get(e, "semantic_entities", ListV(0))
        paa == Get(e, "paa_questions", ListV(0))
        citations == Get(e, "citations", ListV(0))
    IN  When(e.level \notin VALID_LEVELS, EntryMsg(INVALID_LEVEL, <<e.level>>, <<>>))
        \o When(e.user_intent \notin VALID_INTENTS,
                EntryMsg(INVALID_INTENT, <<e.user_intent>>, <<>>))
        \o When(~IsInstanceInt(score) \/ score.n < PriorityMin \/ score.n > PriorityMax,
                EntryMsg(INVALID_SCORE, <<score.t>>, <<score.n>>))
        \o When(~entities.isList \/ entities.len < EntitiesMin \/ entities.len > EntitiesMax,
                EntryMsg(ENTITIES_RANGE, <<>>, <<entities.len>>))
        \o When(~paa.isList \/ paa.len < PaaMin, EntryMsg(PAA_MIN, <<>>, <<paa.len>>))
        \o When(~citations.isList \/ citations.len < CitationsMin,
                EntryMsg(CITATIONS_MIN, <<>>, <<citations.len>>))

validate_entry(e) ==
    LET errors == MissingFrom(e, 1)
    IN  IF errors = <<>> THEN ValueChecks(e) ELSE errors

\* The per-entry loop of validate_topic_map: entries is a sequence of
\* catalogue names, index i is 0-based as in enumerate().
RECURSIVE PerEntry(_, _)
PerEntry(entries, k) ==
    IF k > Len(entries) THEN <<>>
    ELSE LET e == Entry(entries[k])
             entry_errors == validate_entry(e)
             title == Get(e, "content_title", "unknown")
         IN  [j \in 1..Len(entry_errors) |-> Prefixed(k - 1, title, entry_errors[j])]
             \o PerEntry(entries, k + 1)

OfLevel(entries, level) == SelectSeq(entries, LAMBDA b : Entry(b).level = level)

RECURSIVE ClusterChecks(_, _, _)
ClusterChecks(clusters, k, pillar_title) ==
    IF k > Len(clusters) THEN <<>>
    ELSE LET c == Entry(clusters[k])
             parent == Get(c, "parent_topic", "")
         IN  When(parent # "" /\ parent # pillar_title,
                  Structural(CLUSTER_PARENT, <<c.content_title, parent, pillar_title>>, <<>>))
             \o ClusterChecks(clusters, k + 1, pillar_title)

\* A slip: a Spoke's parent is compared with the Pillar's title.
SpokeChecks_pillar(spokes, k, cluster_titles) ==
    LET mismatched == SelectSeq(spokes, LAMBDA b :
                          Get(Entry(b), "parent_topic", "") \notin {"", PillarTitle})
    IN  [j \in 1..Len(mismatched) |->
            Structural(SPOKE_PARENT,
                       <<Entry(mismatched[j]).content_title,
                         Entry(mismatched[j]).parent_topic>>, <<>>)]

RECURSIVE SpokeChecks(_, _, _)
SpokeChecks(spokes, k, cluster_titles) ==
    IF k > Len(spokes) THEN <<>>
    ELSE LET sp == Entry(spokes[k])
             parent == Get(sp, "parent_topic", "")
         IN  When(parent # "" /\ parent \notin cluster_titles,
                  Structural(SPOKE_PARENT, <<sp.content_title, parent>>, <<>>))
             \o SpokeChecks(spokes, k + 1, cluster_titles)

\* A slip: the structural checks end at the first level that has a mismatch.
StructuralChecks_stop(entries) ==
    LET pillars == OfLevel(entries, "Pillar")
        clusters == OfLevel(entries, "Cluster")
        spokes == OfLevel(entries, "Spoke")
    IN  IF Len(pillars) # 1
        THEN <<Structural(PILLAR_COUNT, <<>>, <<Len(pillars)>>)>>
        ELSE LET pillar_title == Entry(pillars[1]).content_title
                 cluster_titles == { Entry(clusters[k]).content_title : k \in 1..Len(clusters) }
                 found == ClusterChecks(clusters, 1, pillar_title)
             IN  IF found # <<>> THEN found ELSE SpokeChecks(spokes, 1, cluster_titles)

\* validate_topic_map on a list of dicts
StructuralChecks(entries) ==
    LET pillars == OfLevel(entries, "Pillar")
        clusters == OfLevel(entries, "Cluster")
        spokes == OfLevel(entries, "Spoke")
    IN  IF Len(pillars) # 1
        THEN <<Structural(PILLAR_COUNT, <<>>, <<Len(pillars)>>)>>
        ELSE LET pillar_title == Entry(pillars[1]).content_title
                 cluster_titles == { Entry(clusters[k]).content_title : k \in 1..Len(clusters) }
             IN  ClusterChecks(clusters, 1, pillar_title)
                 \o SpokeChecks(spokes, 1, cluster_titles)

validate_topic_map(entries) ==
    LET errors == PerEntry(entries, 1)
    IN  IF errors # <<>> THEN errors ELSE StructuralChecks(entries)

\* An element that is not a dict makes the per-entry loop raise: an int has
\* no "in" (TypeError in validate_entry), a str or list has no .get
\* (AttributeError when the message prefix is built).
ValidatorRaises(entries) == \E k \in 1..Len(entries) : ~IsDict(entries[k])
ValidatorException(entries) ==
    LET k == CHOOSE k \in 1..Len(entries) :
                 /\ ~IsDict(entries[k])
                 /\ \A j \in 1..(k - 1) : IsDict(entries[j])
    IN  IF entries[k] = "num" THEN "TypeError" ELSE "AttributeError"

(***************************************************************************)
(* Severity, as generate_topic_map decides it: a substring test on the     *)
(* rendered message.  The rendered text is made of the prefix's title, the *)
(* literal notice and the interpolated values.                             *)
(***************************************************************************)
\* needle in s, for the strings of this model
HasSubstring(s, needle) == s = needle \/ (needle = MISSING /\ s = NoticeTitle)

TextParts(m) ==
    {m.kind} \cup { m.strs[k] : k \in 1..Len(m.strs) }
             \cup (IF m.idx >= 0 THEN {m.title} ELSE {})

InMessage(needle, m) == \E part \in TextParts(m) : HasSubstring(part, needle)

IsCritical(m) == InMessage(MISSING, m) \/ InMessage(PILLAR_COUNT, m)

(***************************************************************************)
(* _clean_json_response (services/ai_service.py), on token sequences.      *)
(***************************************************************************)
RECURSIVE LStrip(_)
LStrip(s) == IF s # <<>> /\ s[1] \in WS THEN LStrip(Tail(s)) ELSE s

RECURSIVE RStrip(_)
RStrip(s) ==
    IF s # <<>> /\ s[Len(s)] \in WS THEN RStrip(SubSeq(s, 1, Len(s) - 1)) ELSE s

\* str.strip()
Strip(s) == RStrip(LStrip(s))

\* re.sub(r"^```(?:json)?\s*\n?", "", text)
StripOpeningFence(s) ==
    IF s # <<>> /\ s[1] = "fence"
    THEN LET rest == Tail(s)
             untagged == IF rest # <<>> /\ rest[1] = "json" THEN Tail(rest) ELSE rest
         IN  LStrip(untagged)
    ELSE s

\* re.sub(r"\n?```\s*$", "", text)
StripClosingFence(s) ==
    LET t == RStrip(s)
    IN  IF t # <<>> /\ t[Len(t)] = "fence"
        THEN LET u == SubSeq(t, 1, Len(t) - 1)
             IN  IF u # <<>> /\ u[Len(u)] = "nl" THEN SubSeq(u, 1, Len(u) - 1) ELSE u
        ELSE s

\* The substitution inside the member text of an object: the pattern also
\* matches within a string value, so the object titled CommaInTitle becomes
\* the object titled CommaDropped.
SubInBody(tok) == IF tok = "Q" THEN "Qc" ELSE tok

\* re.sub(r",\s*([\]}])", r"\1", text): a comma followed by optional
\* whitespace and a closer is dropped together with that whitespace.
RECURSIVE StripTrailingCommas(_)
StripTrailingCommas(s) ==
    IF s = <<>> THEN <<>>
    ELSE LET after == LStrip(Tail(s))
         IN  IF s[1] = "," /\ after # <<>> /\ after[1] \in Closers
             THEN StripTrailingCommas(after)
             ELSE <<SubInBody(s[1])>> \o StripTrailingCommas(Tail(s))

_clean_json_response(text) ==
    StripTrailingCommas(Strip(StripClosingFence(StripOpeningFence(Strip(text)))))

(***************************************************************************)
(* json.loads on token sequences.  Positions are 1-based token indexes.    *)
(* A decoded value is "list" (with the names of its elements), "dict" (one *)
(* catalogue object) or "num".  A nested list is the element "list".       *)
(***************************************************************************)
Scalars == {"num"}
Prose == {"txt", "bulk"}              \* text that starts no JSON value
\* a token that is the member text of one complete object
IsBody(tok) == tok \notin (WS \cup Closers \cup Scalars \cup Prose
                           \cup {"[", "{", ",", "fence", "json", "part"})

Decoded(type, name, items, end) ==
    [ok |-> TRUE, type |-> type, name |-> name, items |-> items, end |-> end,
     err |-> "", pos |-> 0]
JSONDecodeError(msg, pos) ==
    [ok |-> FALSE, type |-> "", name |-> "", items |-> <<>>, end |-> 0,
     err |-> msg, pos |-> pos]

\* WHITESPACE.match(s, i).end()
RECURSIVE SkipWs(_, _)
SkipWs(s, i) == IF i <= Len(s) /\ s[i] \in WS THEN SkipWs(s, i + 1) ELSE i

\* JSONObject, entered after "{"
JSONObject(s, i) ==
    LET j == SkipWs(s, i)
    IN  IF j <= Len(s) /\ s[j] = "}" THEN Decoded("dict", "empty", <<>>, j + 1)
        ELSE IF j <= Len(s) /\ s[j] = "part"
             THEN JSONDecodeError("Unterminated string starting at", j)
        ELSE IF j <= Len(s) /\ IsBody(s[j])
             THEN LET k == SkipWs(s, j + 1)
                  IN  IF k <= Len(s) /\ s[k] = "}" THEN Decoded("dict", s[j], <<>>, k + 1)
                      ELSE IF k <= Len(s) /\ s[k] = ","
                           THEN JSONDecodeError(
                                    "Expecting property name enclosed in double quotes",
                                    SkipWs(s, k + 1))
                      ELSE JSONDecodeError("Expecting ',' delimiter", k)
        ELSE JSONDecodeError("Expecting property name enclosed in double quotes", j)

RECURSIVE ScanOnce(_, _)
RECURSIVE JSONArrayItems(_, _, _)

\* JSONArray's loop, entered at the first token of a value
JSONArrayItems(s, i, acc) ==
    LET v == ScanOnce(s, i)
    IN  IF ~v.ok THEN v
        ELSE LET items == Append(acc, IF v.type = "dict" THEN v.name ELSE v.type)
                 k == SkipWs(s, v.end)
             IN  IF k <= Len(s) /\ s[k] = "]" THEN Decoded("list", "", items, k + 1)
                 ELSE IF k <= Len(s) /\ s[k] = ","
                      THEN JSONArrayItems(s, SkipWs(s, k + 1), items)
                 ELSE JSONDecodeError("Expecting ',' delimiter", k)

\* JSONArray, entered after "["
JSONArray(s, i) ==
    LET j == SkipWs(s, i)
    IN  IF j <= Len(s) /\ s[j] = "]" THEN Decoded("list", "", <<>>, j + 1)
        ELSE JSONArrayItems(s, j, <<>>)

\* scan_once: one value starting exactly at i
ScanOnce(s, i) ==
    IF i > Len(s) THEN JSONDecodeError("Expecting value", i)
    ELSE IF s[i] = "{" THEN JSONObject(s, i + 1)
    ELSE IF s[i] = "[" THEN JSONArray(s, i + 1)
    ELSE IF s[i] \in Scalars THEN Decoded("num", "", <<>>, i + 1)
    ELSE JSONDecodeError("Expecting value", i)

\* json.loads: JSONDecoder.decode
json_loads(s) ==
    LET v == ScanOnce(s, SkipWs(s, 1))
    IN  IF ~v.ok THEN v
        ELSE LET end == SkipWs(s, v.end)
             IN  IF end <= Len(s) THEN JSONDecodeError("Extra data", end) ELSE v

\* Optional[List[dict]]
None == [isNone |-> TRUE, list |-> <<>>]
Some(list) == [isNone |-> FALSE, list |-> list]

_parse_json(text) ==
    LET data == json_loads(_clean_json_response(text))
    IN  IF data.ok /\ data.type = "list" THEN Some(data.items) ELSE None

(***************************************************************************)
(* Slices of the raw response that go into the follow-up prompts.  Every   *)
(* token is one character except the fence (3), the tag (4) and "bulk", a  *)
(* run of FixOutputChars characters of prose; a slice that cuts into a run *)
(* of prose keeps a shorter run of prose ("txt").                          *)
(***************************************************************************)
CharLen(tok) ==
    CASE tok = "bulk" -> FixOutputChars
      [] tok = "fence" -> 3
      [] tok = "json" -> 4
      [] OTHER -> 1

\* text[:n]
RECURSIVE FirstChars(_, _)
FirstChars(text, n) ==
    IF text = <<>> \/ n <= 0 THEN <<>>
    ELSE IF CharLen(text[1]) <= n
         THEN <<text[1]>> \o FirstChars(Tail(text), n - CharLen(text[1]))
    ELSE IF text[1] \in Prose THEN <<"txt">> ELSE <<>>

\* text[-n:]
RECURSIVE LastChars(_, _)
LastChars(text, n) ==
    IF text = <<>> \/ n <= 0 THEN <<>>
    ELSE LET last == text[Len(text)]
             init == SubSeq(text, 1, Len(text) - 1)
         IN  IF CharLen(last) <= n
             THEN LastChars(init, n - CharLen(last)) \o <<last>>
             ELSE IF last \in Prose THEN <<"txt">> ELSE <<>>

\* str.rfind("}"): 0-based index of the last "}", -1 when there is none
RECURSIVE RFindBrace(_, _)
RFindBrace(text, k) ==
    IF k = 0 THEN -1
    ELSE IF text[k] = "}" THEN k - 1 ELSE RFindBrace(text, k - 1)

(***************************************************************************)
(* Responses the LLM may give.  Arr renders a list of elements as a JSON   *)
(* array; the other constructors wrap or damage it the way LLM output is   *)
(* wrapped or damaged.                                                     *)
(***************************************************************************)
Elem(b) ==
    CASE b = "num" -> <<"num">>
      [] b = "list" -> <<"[", "]">>
      [] b = "empty" -> <<"{", "}">>
      [] OTHER -> <<"{", b, "}">>

RECURSIVE Elems(_)
Elems(list) ==
    IF list = <<>> THEN <<>>
    ELSE IF Len(list) = 1 THEN Elem(list[1])
    ELSE Elem(list[1]) \o <<",", "sp">> \o Elems(Tail(list))

Arr(list) == <<"[">> \o Elems(list) \o <<"]">>
FencedJson(list) == <<"fence", "json", "nl">> \o Arr(list) \o <<"nl", "fence">>
Fenced(list) == <<"fence", "nl">> \o Arr(list) \o <<"nl", "fence", "nl">>
TrailingComma(list) == <<"[">> \o Elems(list) \o <<",", "nl", "]">>
FencedTrailingComma(list) ==
    <<"sp", "fence", "json", "nl", "[">> \o Elems(list) \o <<",", "]", "nl", "fence">>
\* cut inside the object that follows the list's last element
CutMidObject(list) == <<"[">> \o Elems(list) \o <<",", "sp", "{", "part">>
\* cut right after the comma that follows the list's last element
CutAfterComma(list) == <<"[">> \o Elems(list) \o <<",">>
Commented(list) == <<"txt", "nl">> \o Arr(list)
Trailed(list) == Arr(list) \o <<"nl", "txt">>
Padded(list) == <<"nl">> \o Arr(list) \o <<"sp", "nl">>
\* prose before and after the array
Wrapped(list) == <<"txt", "nl">> \o Arr(list) \o <<"nl", "txt">>

\* Decoded content of the modelled responses.
WellFormed == <<"P", "C", "S">>
ElevenSpokes == Replicate("S", ContinuationMin + 1)

InitialLists ==
    { WellFormed, <<"P", "Pi">>, <<"P", "P2">>, <<"C", "S">>, <<"H">>,
      <<"P", "Cx", "Sx">>, <<"P", "N">>, <<"P", "M1">>, <<"M2", "empty", "S_p0">>,
      <<"empty">>, <<"P", "num">>, <<"list", "M1">>, <<"P", "C", "Q">>, <<>> }

InitialResponses ==
    { Arr(l) : l \in InitialLists }
    \cup { FencedJson(WellFormed), Fenced(WellFormed), TrailingComma(WellFormed),
           FencedTrailingComma(<<"P", "M1">>), Padded(WellFormed),
           <<"fence", "nl">> \o TrailingComma(<<"P", "C">>) \o <<"nl", "fence">>,
           CutMidObject(<<"P", "C">>), CutAfterComma(<<"P", "C">>),
           CutMidObject(<<"empty">>), <<"[", "{", "part">>,
           Commented(WellFormed), Trailed(WellFormed), Wrapped(<<"P", "C">>),
           <<"bulk">> \o Arr(<<"P", "Pi">>),
           <<>>, <<"sp", "nl">>, <<"txt">>, <<"num">>, <<"{", "P", "}">>,
           <<"fence", "json", "nl", "{", "P", "}", "nl", "fence">> }

RepairResponses ==
    { Arr(WellFormed), FencedJson(<<"P", "Pi">>), Arr(<<"P", "M1">>), Arr(<<"C">>),
      Arr(<<>>), Arr(<<"num">>), <<"txt">>, <<"{", "P", "}">>,
      CutMidObject(<<"P">>), <<>> }

ContinuationResponses ==
    { Arr(<<"S">>), Arr(<<"C0", "S0">>), Arr(ElevenSpokes), Arr(<<"M1">>),
      FencedTrailingComma(<<"S">>), Arr(<<>>), Elems(<<"S">>) \o <<"]">>,
      <<"{", "S", "}">>, <<"txt">>, <<>> }

(***************************************************************************)
(* State.                                                                  *)
(***************************************************************************)
VARIABLES
    ANTHROPIC_API_KEY,   \* config/settings.py: the key is configured
    TAVILY_API_KEY,      \* config/settings.py: the key is configured
    session,             \* st.session_state: which request wrote each slot (0: unset)
    ui,                  \* what the last script run of the application reported
    requests,            \* generation requests started so far
    caller,              \* "app": _run_generation; "api": generate_topic_map called directly
    pc,                  \* "idle", "research", "calling", "done"
    call,                \* the logical LLM call in progress
    attempt,             \* _call_claude: the loop variable
    slept,               \* _call_claude: seconds slept so far by the call in progress
    calls,               \* network calls of the current request, in order
    raw_response,        \* generate_topic_map: raw_response
    fix_response,        \* generate_topic_map: fix_response
    continuation,        \* generate_topic_map: continuation
    entries,             \* generate_topic_map: entries (None or a list)
    validated,           \* the lists validate_topic_map was run on in this request
    outcome,             \* how the current request ended
    v_entries,           \* validator on its own: the list given to validate_topic_map
    v_errors,            \* validator on its own: the messages returned
    v_pc,                \* validator on its own: "input", "returned", "off"
    workers              \* concurrent invocations: the locals of each one

vars ==
    << ANTHROPIC_API_KEY, TAVILY_API_KEY, session, ui, requests, caller, pc, call,
       attempt, slept, calls, raw_response, fix_response, continuation, entries,
       validated, outcome,
       v_entries, v_errors, v_pc, workers >>

config == << ANTHROPIC_API_KEY, TAVILY_API_KEY >>
app == << session, ui >>
validator == << v_entries, v_errors, v_pc >>
responses == << raw_response, fix_response, continuation >>

\* Outcomes of a request.
Outcome(kind, text, msgs, value) ==
    [kind |-> kind, text |-> text, msgs |-> msgs, value |-> value]
Pending == Outcome("pending", "", <<>>, <<>>)
ConfigError == Outcome("config", "ANTHROPIC_API_KEY is not configured.", <<>>, <<>>)
RateLimitError == Outcome("rate_limit", "anthropic.RateLimitError", <<>>, <<>>)
ApiError == Outcome("api_error", "anthropic.APIError", <<>>, <<>>)
ParseError ==
    Outcome("parse", "Failed to parse Claude's response as valid JSON after retry.",
            <<>>, <<>>)
EmptyResultError == Outcome("empty", "No topic map entries were generated.", <<>>, <<>>)
ValidationError(msgs) == Outcome("validation", "Topic map validation failed:", msgs, <<>>)
Crash(exc) == Outcome("crash", exc, <<>>, <<>>)
Returned(list) == Outcome("returned", "", <<>>, list)
ResearchError == Outcome("research", "Research failed", <<>>, <<>>)

\* One network call of the log: the logical call, what its prompt embeds
\* (the decode error, a slice of the raw response), how it ended, and the
\* API attempts it made and the seconds it slept by then.
Call(kind, error, text) ==
    [kind |-> kind, error |-> error, text |-> text, status |-> "pending",
     attempts |-> 0, slept |-> 0]

NoError == [msg |-> "", pos |-> 0]
\* The Tavily queries of perform_research, as one call of the log.
Research(status) == [Call("research", NoError, <<>>) EXCEPT !.status = status]
DecodeError(data) == [msg |-> data.err, pos |-> data.pos]

Status(text) == [text |-> text, missing |-> {}]

Unset == [research_data |-> 0, topic_map_topic |-> 0, topic_map_entries |-> 0]

(***************************************************************************)
(* Initial state: the process has started, settings are loaded, no request *)
(* has been made.                                                          *)
(***************************************************************************)
Init ==
    /\ ANTHROPIC_API_KEY \in BOOLEAN
    /\ TAVILY_API_KEY \in BOOLEAN
    /\ session = Unset
    /\ ui = Status("")
    /\ requests = 0
    /\ caller = "none"
    /\ pc = "idle"
    /\ call = "none"
    /\ attempt = 0
    /\ slept = 0
    /\ calls = <<>>
    /\ raw_response = <<>>
    /\ fix_response = <<>>
    /\ continuation = <<>>
    /\ entries = None
    /\ validated = <<>>
    /\ outcome = Pending
    /\ v_entries = <<>>
    /\ v_errors = <<>>
    /\ v_pc = "off"
    /\ workers = <<>>

(***************************************************************************)
(* Steps shared by the actions of generate_topic_map.                      *)
(***************************************************************************)
\* The log with the call in progress ended.
Ended(status) ==
    [calls EXCEPT ![Len(calls)] =
        [@ EXCEPT !.status = status, !.attempts = attempt + 1, !.slept = slept]]

\* _call_claude is entered: the client is built and attempt 0 is sent.
StartCall(log, kind, error, text) ==
    /\ pc' = "calling"
    /\ call' = kind
    /\ attempt' = 0
    /\ slept' = 0
    /\ calls' = Append(log, Call(kind, error, text))
    /\ outcome' = Pending
    /\ UNCHANGED app

\* The request ends with `out`.  _run_generation stores a returned list and
\* its topic in the session; any exception leaves the session as it is.
End(who, out) ==
    /\ pc' = "done"
    /\ calls' = Ended(IF out.kind \in {"rate_limit", "api_error"} THEN "raised"
                                                                  ELSE "returned")
    /\ call' = "none"
    /\ attempt' = 0
    /\ slept' = 0
    /\ outcome' = out
    /\ session' = IF who = "app" /\ out.kind = "returned"
                  THEN [session EXCEPT !.topic_map_entries = requests,
                                       !.topic_map_topic = requests]
                  ELSE session
    /\ ui' = IF who # "app" THEN ui
             ELSE IF out.kind = "returned" THEN Status("Topic map generated!")
             ELSE Status("Topic map generation failed")

\* critical_errors = [e for e in errors if ... in e or ... in e]
CriticalErrors(errors) == SelectSeq(errors, IsCritical)

\* critical_errors[:10]
Reported(critical_errors) == Take(critical_errors, MaxCritical)

\* A slip: the empty check of lines 156-157 left out.
Verdict_unguarded(list) ==
    IF ValidatorRaises(list) THEN Crash(ValidatorException(list))
    ELSE LET critical_errors == CriticalErrors(validate_topic_map(list))
         IN  IF critical_errors # <<>>
             THEN ValidationError(Reported(critical_errors))
             ELSE Returned(list)

\* Lines 156-170: the empty check, the validator, the severity filter.
Verdict(list) ==
    IF list = <<>> THEN EmptyResultError
    ELSE IF ValidatorRaises(list) THEN Crash(ValidatorException(list))
    ELSE LET critical_errors == CriticalErrors(validate_topic_map(list))
         IN  IF critical_errors # <<>>
             THEN ValidationError(Reported(critical_errors))
             ELSE Returned(list)

Finish(list) ==
    /\ entries' = Some(list)
    /\ validated' = IF list = <<>> THEN validated ELSE Append(validated, list)
    /\ End(caller, Verdict(list))

\* A slip: the cleaned text is tested instead of the raw response.
LooksTruncated_cleaned(raw) ==
    LET t == _clean_json_response(raw) IN t = <<>> \/ t[Len(t)] # "]"

\* raw_response.rstrip()[-1] != "]"
LooksTruncated(raw) == LET t == RStrip(raw) IN t[Len(t)] # "]"

\* Lines 130-136 and on: the truncation check, entered with a decoded list.
\* Indexing the last character of a blank response raises IndexError.
CheckTruncation(raw, parsed) ==
    IF RStrip(raw) = <<>>
    THEN /\ entries' = parsed
         /\ End(caller, Crash("IndexError"))
         /\ UNCHANGED validated
    ELSE IF LooksTruncated(raw)
    THEN /\ entries' = parsed
         /\ StartCall(Ended("returned"), "continuation", NoError,
                      LastChars(raw, LastChunkChars))
         /\ UNCHANGED validated
    ELSE Finish(parsed.list)

\* A slip: the raise of lines 124-128 left out, None carried on as no entries.
AfterDecode_unchecked(raw, parsed) ==
    CheckTruncation(raw, IF parsed.isNone THEN Some(<<>>) ELSE parsed)

\* A slip: a decode that gives no list asks for another repair.
AfterDecode_retries(raw, parsed) ==
    IF parsed.isNone
    THEN /\ entries' = None
         /\ StartCall(Ended("returned"), "repair", NoError, FirstChars(raw, FixOutputChars))
         /\ UNCHANGED validated
    ELSE CheckTruncation(raw, parsed)

\* Lines 124-128 and on: entered with the result of the initial or the
\* repair decode.
AfterDecode(raw, parsed) ==
    IF parsed.isNone
    THEN /\ entries' = None
         /\ End(caller, ParseError)
         /\ UNCHANGED validated
    ELSE CheckTruncation(raw, parsed)

\* A slip: the continuation entries are put in front of the salvaged ones.
Merged_continuation_first(raw, list, continuation_entries) ==
    IF continuation_entries.isNone \/ continuation_entries.list = <<>> THEN list
    ELSE LET truncated == _clean_json_response(raw)
             last_brace == RFindBrace(truncated, Len(truncated))
         IN  IF last_brace > 0
             THEN LET base_entries ==
                          json_loads(SubSeq(truncated, 1, last_brace + 1) \o <<"]">>)
                  IN  IF ~base_entries.ok
                      THEN IF Len(continuation_entries.list) > ContinuationMin
                           THEN continuation_entries.list
                           ELSE list
                      ELSE IF base_entries.type = "list"
                           THEN continuation_entries.list \o base_entries.items
                           ELSE list
             ELSE list

\* A slip: a salvage that raises falls back on the continuation whatever its length.
Merged_any_length(raw, list, continuation_entries) ==
    IF continuation_entries.isNone \/ continuation_entries.list = <<>> THEN list
    ELSE LET truncated == _clean_json_response(raw)
             last_brace == RFindBrace(truncated, Len(truncated))
         IN  IF last_brace > 0
             THEN LET base_entries ==
                          json_loads(SubSeq(truncated, 1, last_brace + 1) \o <<"]">>)
                  IN  IF ~base_entries.ok
                      THEN continuation_entries.list
                      ELSE IF base_entries.type = "list"
                           THEN base_entries.items \o continuation_entries.list
                           ELSE list
             ELSE list

\* Lines 138-154: what the continuation does to entries.
Merged(raw, list, continuation_entries) ==
    IF continuation_entries.isNone \/ continuation_entries.list = <<>> THEN list
    ELSE LET truncated == _clean_json_response(raw)
             last_brace == RFindBrace(truncated, Len(truncated))
         IN  IF last_brace > 0
             THEN LET base_entries ==
                          json_loads(SubSeq(truncated, 1, last_brace + 1) \o <<"]">>)
                  IN  IF ~base_entries.ok
                      THEN IF Len(continuation_entries.list) > ContinuationMin
                           THEN continuation_entries.list
                           ELSE list
                      ELSE IF base_entries.type = "list"
                           THEN base_entries.items \o continuation_entries.list
                           ELSE list
             ELSE list

(***************************************************************************)
(* The application (app.py).                                               *)
(***************************************************************************)
\* _check_api_keys: the names of the keys that are missing
MissingKeys ==
    (IF ~ANTHROPIC_API_KEY THEN {"ANTHROPIC_API_KEY"} ELSE {})
    \cup (IF ~TAVILY_API_KEY THEN {"TAVILY_API_KEY"} ELSE {})

\* A slip: only the LLM key is looked at.
_check_api_keys_llm_only == ANTHROPIC_API_KEY

_check_api_keys == MissingKeys = {}

\* A new request starts with fresh locals.
Fresh ==
    /\ raw_response' = <<>>
    /\ fix_response' = <<>>
    /\ continuation' = <<>>
    /\ entries' = None
    /\ validated' = <<>>

\* main(): one script run in which "Generate Topic Map" was clicked with a
\* topic entered.  Without the keys it returns before the button is drawn.
Main ==
    /\ pc \in {"idle", "done"}
    /\ requests < MaxRequests
    /\ IF ~_check_api_keys
       THEN /\ ui' = [text |-> "Missing required API keys", missing |-> MissingKeys]
            /\ UNCHANGED << session, requests, caller, pc, call, attempt, slept, calls,
                            responses, entries, validated, outcome >>
       ELSE /\ requests' = requests + 1
            /\ caller' = "app"
            /\ pc' = "research"
            /\ ui' = Status("Researching topic...")
            /\ calls' = <<>>
            /\ outcome' = Pending
            /\ Fresh
            /\ UNCHANGED << session, call, attempt, slept >>
    /\ UNCHANGED << workers, config, validator >>

\* _run_generation, phase 2: perform_research raises (its own key guard, or
\* anything else), or returns and phase 3 enters generate_topic_map.
PerformResearch ==
    /\ pc = "research"
    /\ \E ok \in BOOLEAN :
         IF ~TAVILY_API_KEY \/ ~ok
         THEN /\ pc' = "done"
              /\ outcome' = ResearchError
              /\ ui' = Status(IF ~TAVILY_API_KEY THEN "TAVILY_API_KEY is not configured."
                                                 ELSE "Research failed")
              /\ calls' = IF ~TAVILY_API_KEY THEN calls
                          ELSE Append(calls, Research("raised"))
              /\ UNCHANGED << session, call, attempt, slept >>
         ELSE /\ session' = [session EXCEPT !.research_data = requests]
              /\ ui' = Status("Building topic map with AI...")
              /\ IF ~ANTHROPIC_API_KEY
                 THEN /\ pc' = "done"
                      /\ outcome' = ConfigError
                      /\ calls' = Append(calls, Research("returned"))
                      /\ UNCHANGED << call, attempt, slept >>
                 ELSE /\ pc' = "calling"
                      /\ call' = "initial"
                      /\ attempt' = 0
                      /\ slept' = 0
                      /\ outcome' = Pending
                      /\ calls' = calls \o << Research("returned"),
                                              Call("initial", NoError, <<>>) >>
    /\ UNCHANGED << workers, config, validator, requests, caller, responses, entries, validated >>

(***************************************************************************)
(* generate_topic_map (services/ai_service.py).                            *)
(***************************************************************************)
\* generate_topic_map called by a caller other than the application.
Generate ==
    /\ pc \in {"idle", "done"}
    /\ requests < MaxRequests
    /\ requests' = requests + 1
    /\ caller' = "api"
    /\ Fresh
    /\ IF ~ANTHROPIC_API_KEY
       THEN /\ pc' = "done"
            /\ outcome' = ConfigError
            /\ calls' = <<>>
       ELSE /\ pc' = "calling"
            /\ outcome' = Pending
            /\ calls' = << Call("initial", NoError, <<>>) >>
    /\ call' = IF ANTHROPIC_API_KEY THEN "initial" ELSE "none"
    /\ attempt' = 0
    /\ slept' = 0
    /\ UNCHANGED << workers, config, validator, app >>

\* _call_claude: an attempt of the loop is awaiting the API's answer
InAttempt == pc = "calling" /\ attempt < MaxAttempts

\* A slip: the last attempt sleeps too before it re-raises.
RateLimited_sleeps_last ==
    /\ InAttempt
    /\ IF attempt < LastRetryAttempt
       THEN /\ slept' = slept + Pow(BackoffBase, attempt + 1)
            /\ attempt' = attempt + 1
            /\ UNCHANGED << app, pc, call, outcome, calls >>
       ELSE /\ pc' = "done"
            /\ calls' = [calls EXCEPT ![Len(calls)] =
                            [@ EXCEPT !.status = "raised", !.attempts = attempt + 1,
                                      !.slept = slept + Pow(BackoffBase, attempt + 1)]]
            /\ call' = "none"
            /\ attempt' = 0
            /\ slept' = 0
            /\ outcome' = RateLimitError
            /\ UNCHANGED app
    /\ UNCHANGED << workers, config, validator, requests, caller, responses, entries, validated >>

\* _call_claude: the attempt raises anthropic.RateLimitError
RateLimited ==
    /\ InAttempt
    /\ IF attempt < LastRetryAttempt
       THEN /\ slept' = slept + Pow(BackoffBase, attempt + 1)
            /\ attempt' = attempt + 1
            /\ UNCHANGED << app, pc, call, outcome, calls >>
       ELSE End(caller, RateLimitError)
    /\ UNCHANGED << workers, config, validator, requests, caller, responses, entries, validated >>

\* _call_claude: the attempt raises anything else
ApiFails ==
    /\ InAttempt
    /\ End(caller, ApiError)
    /\ UNCHANGED << workers, config, validator, requests, caller, responses, entries, validated >>

\* The initial call returns text: lines 108-136
InitialReturns ==
    /\ InAttempt
    /\ call = "initial"
    /\ \E text \in InitialResponses :
         /\ raw_response' = text
         /\ LET parsed == _parse_json(text)
                data == json_loads(_clean_json_response(text))
            IN  IF parsed.isNone /\ ~data.ok
                THEN /\ entries' = None
                     /\ StartCall(Ended("returned"), "repair", DecodeError(data),
                                  FirstChars(text, FixOutputChars))
                     /\ UNCHANGED validated
                ELSE AfterDecode(text, parsed)
    /\ UNCHANGED << workers, config, validator, requests, caller, fix_response, continuation >>

\* The repair call returns text: lines 121-136
RepairReturns ==
    /\ InAttempt
    /\ call = "repair"
    /\ \E text \in RepairResponses :
         /\ fix_response' = text
         /\ AfterDecode(raw_response, _parse_json(text))
    /\ UNCHANGED << workers, config, validator, requests, caller, raw_response, continuation >>

\* The continuation call returns text: lines 135-170
ContinuationReturns ==
    /\ InAttempt
    /\ call = "continuation"
    /\ \E text \in ContinuationResponses :
         /\ continuation' = text
         /\ Finish(Merged(raw_response, entries.list, _parse_json(text)))
    /\ UNCHANGED << workers, config, validator, requests, caller, raw_response, fix_response >>

Next ==
    \/ Main
    \/ PerformResearch
    \/ Generate
    \/ RateLimited
    \/ ApiFails
    \/ InitialReturns
    \/ RepairReturns
    \/ ContinuationReturns

Spec == Init /\ [][Next]_vars

(***************************************************************************)
(* validate_topic_map on its own: the list is an input, the step applies   *)
(* the function.  Inputs are lists of dicts, as the signature says.        *)
(***************************************************************************)
\* every list over S of length at most n
RECURSIVE Lists(_, _)
Lists(S, n) ==
    IF n = 0 THEN {<<>>}
    ELSE LET shorter == Lists(S, n - 1)
         IN  shorter \cup { Append(l, b) : l \in { x \in shorter : Len(x) = n - 1 }, b \in S }

\* list with b put in front of position k
Insert(list, k, b) == SubSeq(list, 1, k - 1) \o <<b>> \o SubSeq(list, k, Len(list))

\* entries that pass or fail the structural checks and one that lacks a field
Structurals == {"P", "P2", "C", "C0", "Cx", "S", "S0", "Sx", "M1"}
\* entries with one value out of its domain, a notice in the title, or keys missing
Variants ==
    {"Pi", "H", "Sp", "S_p0", "S_p1", "S_p5", "S_p6", "S_ps", "S_pt", "S_e2", "S_e6",
     "S_en", "S_q1", "S_c0", "N", "M2", "M3", "empty"}

ValidatorInputs ==
    Lists(Structurals, MaxEntries)
    \cup UNION { { Insert(l, k, b) : k \in 1..(Len(l) + 1), b \in Variants } :
                  l \in Lists({"P", "C", "S"}, MaxEntries - 1) }

InitValidate ==
    /\ ANTHROPIC_API_KEY = TRUE
    /\ TAVILY_API_KEY = TRUE
    /\ session = Unset
    /\ ui = Status("")
    /\ requests = 0
    /\ caller = "none"
    /\ pc = "idle"
    /\ call = "none"
    /\ attempt = 0
    /\ slept = 0
    /\ calls = <<>>
    /\ raw_response = <<>>
    /\ fix_response = <<>>
    /\ continuation = <<>>
    /\ entries = None
    /\ validated = <<>>
    /\ outcome = Pending
    /\ v_entries \in ValidatorInputs
    /\ v_errors = <<>>
    /\ v_pc = "input"
    /\ workers = <<>>

Validate ==
    /\ v_pc = "input"
    /\ v_errors' = validate_topic_map(v_entries)
    /\ v_pc' = "returned"
    /\ UNCHANGED << workers, config, app, requests, caller, pc, call, attempt, slept, calls,
                    responses, entries, validated, outcome, v_entries >>

NextValidate == Validate

SpecValidate == InitValidate /\ [][NextValidate]_vars

(***************************************************************************)
(* Several invocations of generate_topic_map at the same time (one thread  *)
(* per user session).  Everything an invocation reads or writes is local   *)
(* to it: _call_claude builds its own client and owns its loop variable.   *)
(* A worker is the record of one invocation's locals, with two histories:  *)
(* the texts its calls returned and the rate-limit signals its call in     *)
(* progress received.                                                      *)
(***************************************************************************)
WorkerInitialResponses == { Arr(WellFormed), CutMidObject(<<"P", "C">>) }
WorkerRepairResponses == { Arr(WellFormed), <<"txt">> }
WorkerContinuationResponses == { Arr(<<"S">>) }

WorkerResponses(kind) ==
    CASE kind = "initial" -> WorkerInitialResponses
      [] kind = "repair" -> WorkerRepairResponses
      [] OTHER -> WorkerContinuationResponses

Idle ==
    [ pc |-> "idle", call |-> "none", attempt |-> 0, slept |-> 0, signals |-> 0,
      texts |-> <<>>, raw |-> <<>>, fix |-> <<>>, entries |-> None, kinds |-> <<>>,
      outcome |-> Pending ]

\* _call_claude is entered for the logical call `kind`
Calling(st, kind) ==
    [st EXCEPT !.pc = "calling", !.call = kind, !.attempt = 0, !.slept = 0,
               !.signals = 0, !.kinds = Append(@, kind)]

\* generate_topic_map returns or raises after a call that returned
Done(st, out) ==
    [st EXCEPT !.pc = "done", !.call = "none", !.attempt = 0, !.slept = 0,
               !.signals = 0, !.outcome = out]

\* the exception of _call_claude leaves generate_topic_map
Raised(st, out) ==
    [st EXCEPT !.pc = "done", !.call = "none", !.attempt = 0, !.slept = 0,
               !.outcome = out]

\* lines 124-136 on the locals of one invocation
WorkerAfterDecode(st, parsed) ==
    IF parsed.isNone THEN Done(st, ParseError)
    ELSE IF RStrip(st.raw) = <<>> THEN Done(st, Crash("IndexError"))
    ELSE IF LooksTruncated(st.raw)
         THEN Calling([st EXCEPT !.entries = parsed], "continuation")
    ELSE Done([st EXCEPT !.entries = parsed], Verdict(parsed.list))

\* the call in progress returns text: lines 108-170 on the locals of one
\* invocation
WorkerNextState(st, text) ==
    LET got == [st EXCEPT !.texts = Append(@, text)]
    IN  CASE st.call = "initial" ->
               LET parsed == _parse_json(text)
                   data == json_loads(_clean_json_response(text))
               IN  IF parsed.isNone /\ ~data.ok
                   THEN Calling([got EXCEPT !.raw = text], "repair")
                   ELSE WorkerAfterDecode([got EXCEPT !.raw = text], parsed)
          [] st.call = "repair" ->
               WorkerAfterDecode([got EXCEPT !.fix = text], _parse_json(text))
          [] OTHER ->
               LET list == Merged(st.raw, st.entries.list, _parse_json(text))
               IN  Done([got EXCEPT !.entries = Some(list)], Verdict(list))

\* A slip: the loop variable and the time slept are kept in one place for
\* every invocation (a module-level counter).
Backoff_shared(w) ==
    [v \in DOMAIN workers |->
        [workers[v] EXCEPT !.attempt = @ + 1,
                           !.slept = @ + Pow(BackoffBase, workers[w].attempt + 1),
                           !.signals = IF v = w THEN @ + 1 ELSE @]]

\* lines 67-69: worker w sleeps and goes to its next attempt
Backoff(w) ==
    [workers EXCEPT ![w] =
        [@ EXCEPT !.attempt = @ + 1,
                  !.slept = @ + Pow(BackoffBase, workers[w].attempt + 1),
                  !.signals = @ + 1]]

solo ==
    << config, app, validator, requests, caller, pc, call, attempt, slept, calls,
       responses, entries, validated, outcome >>

InitConcurrent ==
    /\ ANTHROPIC_API_KEY = TRUE
    /\ TAVILY_API_KEY = TRUE
    /\ session = Unset
    /\ ui = Status("")
    /\ requests = 0
    /\ caller = "none"
    /\ pc = "idle"
    /\ call = "none"
    /\ attempt = 0
    /\ slept = 0
    /\ calls = <<>>
    /\ raw_response = <<>>
    /\ fix_response = <<>>
    /\ continuation = <<>>
    /\ entries = None
    /\ validated = <<>>
    /\ outcome = Pending
    /\ v_entries = <<>>
    /\ v_errors = <<>>
    /\ v_pc = "off"
    /\ workers = [w \in 1..NWorkers |-> Idle]

\* an invocation starts: lines 90-108
WorkerGenerate(w) ==
    /\ workers[w].pc = "idle"
    /\ ANTHROPIC_API_KEY
    /\ workers' = [workers EXCEPT ![w] = Calling(Idle, "initial")]
    /\ UNCHANGED solo

\* the attempt of worker w raises anthropic.RateLimitError
WorkerRateLimited(w) ==
    /\ workers[w].pc = "calling"
    /\ workers[w].attempt < MaxAttempts
    /\ IF workers[w].attempt < LastRetryAttempt
       THEN workers' = Backoff(w)
       ELSE workers' = [workers EXCEPT ![w] =
                           Raised([@ EXCEPT !.signals = @ + 1], RateLimitError)]
    /\ UNCHANGED solo

\* the attempt of worker w raises anything else
WorkerApiFails(w) ==
    /\ workers[w].pc = "calling"
    /\ workers[w].attempt < MaxAttempts
    /\ workers' = [workers EXCEPT ![w] = Raised(@, ApiError)]
    /\ UNCHANGED solo

\* the attempt of worker w returns text
WorkerReturns(w) ==
    /\ workers[w].pc = "calling"
    /\ workers[w].attempt < MaxAttempts
    /\ \E text \in WorkerResponses(workers[w].call) :
         workers' = [workers EXCEPT ![w] = WorkerNextState(@, text)]
    /\ UNCHANGED solo

NextConcurrent ==
    \/ \E w \in 1..NWorkers : WorkerGenerate(w)
    \/ \E w \in 1..NWorkers : WorkerRateLimited(w)
    \/ \E w \in 1..NWorkers : WorkerApiFails(w)
    \/ \E w \in 1..NWorkers : WorkerReturns(w)

SpecConcurrent == InitConcurrent /\ [][NextConcurrent]_vars

(***************************************************************************)
(* Properties.                                                             *)
(***************************************************************************)
Issued(kind) == \E k \in 1..Len(calls) : calls[k].kind = kind
TimesIssued(kind) == Cardinality({ k \in 1..Len(calls) : calls[k].kind = kind })
HasReturned(kind) ==
    \E k \in 1..Len(calls) : calls[k].kind = kind /\ calls[k].status = "returned"
TheCall(kind) == calls[CHOOSE k \in 1..Len(calls) : calls[k].kind = kind]

\* the list handed to the validator in this request
FinalList == validated[Len(validated)]

PillarCount(list) ==
    Cardinality({ k \in 1..Len(list) :
                    /\ IsDict(list[k])
                    /\ "level" \in Entry(list[k]).keys
                    /\ Entry(list[k]).level = "Pillar" })

LacksField(b) == IsDict(b) /\ Entry(b).keys # AllFields

\* the trimmed text does not end with the array-closing character
NotClosed(text) == LET t == Strip(text) IN t = <<>> \/ t[Len(t)] # "]"

\* Execution reached the final checks (line 156): every call returned, a
\* decode produced a list, and the truncation check did not raise.
ReachedFinalChecks ==
    /\ pc = "done"
    /\ HasReturned("initial")
    /\ \A k \in 1..Len(calls) : calls[k].status = "returned"
    /\ ~entries.isNone
    /\ Strip(raw_response) # <<>>

\* C1: every list generate_topic_map returns has exactly one Pillar entry
\* (a final list with zero or several Pillars fails validation instead of
\* being returned).
C1_ReturnedListHasOnePillar ==
    outcome.kind = "returned" => PillarCount(outcome.value) = 1

\* C2: if an entry of the final list lacks a required field, the request
\* fails with a validation error carrying at most the first 10 critical
\* messages, in ascending entry index.
C2_MissingFieldFailsValidation ==
    (pc = "done" /\ validated # <<>> /\ \E k \in 1..Len(FinalList) : LacksField(FinalList[k]))
    => /\ outcome.kind = "validation"
       /\ Len(outcome.msgs) <= MaxCritical
       /\ \A i, j \in 1..Len(outcome.msgs) :
              i < j => outcome.msgs[i].idx <= outcome.msgs[j].idx

\* C3: when every message the validator reports for the final list is an
\* advisory finding (not a missing field, not the Pillar count), the
\* complete list is returned unchanged.
C3_AdvisoryOnlyReturnsList ==
    ( /\ pc = "done"
      /\ validated # <<>>
      /\ ~ValidatorRaises(FinalList)
      /\ \A k \in 1..Len(validate_topic_map(FinalList)) :
             validate_topic_map(FinalList)[k].kind \notin {MISSING, PILLAR_COUNT} )
    => outcome = Returned(FinalList)

\* C4 as stated: an initial response that does not end with "]" gets a
\* continuation call before the request terminates with any failure.
C4_ContinuationBeforeAnyFailure ==
    ( /\ pc = "done"
      /\ HasReturned("initial")
      /\ NotClosed(raw_response)
      /\ outcome.kind # "returned" )
    => Issued("continuation")

\* C4 as amended: an initial response that does not end with "]" gets a
\* continuation call, which returns, before the request reaches the final
\* checks (before it returns a list or fails with an empty-result or a
\* validation error); a parse error ends the request without one.
C4_ContinuationBeforeFinalChecks ==
    /\ ( /\ pc = "done"
         /\ HasReturned("initial")
         /\ NotClosed(raw_response)
         /\ (outcome.kind \in {"returned", "empty", "validation"} \/ validated # <<>>) )
       => HasReturned("continuation")
    /\ (pc = "done" /\ outcome.kind = "parse") => ~Issued("continuation")

C4_Witness ==
    /\ pc = "done"
    /\ NotClosed(raw_response)
    /\ HasReturned("continuation")
    /\ outcome.kind = "returned"

\* C5: whenever the initial response does not decode to a JSON array,
\* exactly one repair call is issued; its prompt carries the decode error
\* and the first 8000 characters of the raw response.
C5_DecodeFailureGetsOneRepair ==
    (HasReturned("initial") /\ _parse_json(raw_response).isNone)
    => /\ TimesIssued("repair") = 1
       /\ TheCall("repair").error # NoError
       /\ TheCall("repair").text = FirstChars(raw_response, FixOutputChars)

\* C6: when the initial and the repair response both fail to decode to an
\* array, the request has failed with the parse error, whose message is not
\* the validation error's; the validator was not run and the repair call is
\* the last LLM call.
C6_ParseErrorAfterFailedRepair ==
    ( /\ HasReturned("repair")
      /\ _parse_json(fix_response).isNone
      /\ _parse_json(raw_response).isNone )
    => /\ pc = "done"
       /\ outcome.kind = "parse"
       /\ outcome.text # ValidationError(<<>>).text
       /\ validated = <<>>
       /\ calls[Len(calls)].kind = "repair"

C6_Witness ==
    /\ pc = "done"
    /\ HasReturned("repair")
    /\ _parse_json(fix_response).isNone
    /\ outcome.kind = "parse"

\* C7: no returned list is empty; a request that reaches the final checks
\* with an empty list fails with "No topic map entries were generated."
\* and the validator is not run.
C7_NeverReturnsEmpty ==
    /\ outcome.kind = "returned" => outcome.value # <<>>
    /\ (ReachedFinalChecks /\ entries.list = <<>>)
       => (outcome = EmptyResultError /\ validated = <<>>)

C7_Witness ==
    /\ ReachedFinalChecks
    /\ entries.list = <<>>
    /\ HasReturned("continuation")
    /\ outcome.kind = "empty"

\* C8: without the LLM key no LLM call is issued and a direct call fails
\* with the error naming ANTHROPIC_API_KEY; while either required key is
\* missing the application starts neither research nor generation.
C8_NoCallWithoutKeys ==
    /\ ~ANTHROPIC_API_KEY
       => /\ ~Issued("initial")
          /\ (pc = "done" /\ caller = "api") => outcome = ConfigError
    /\ MissingKeys # {} => (caller # "app" /\ pc # "research" /\ ~Issued("research"))

C8_Witness ==
    /\ ~ANTHROPIC_API_KEY
    /\ ui.missing = MissingKeys
    /\ pc = "done"
    /\ caller = "api"
    /\ outcome = ConfigError
    /\ calls = <<>>

\* An entry that passes every per-entry check of the data model.
ValidEntry(b) ==
    LET e == Entry(b)
    IN  /\ e.keys = AllFields
        /\ e.level \in {"Pillar", "Cluster", "Spoke"}
        /\ e.user_intent \in {"Informational", "Navigational",
                              "Commercial Investigation", "Transactional"}
        /\ e.priority_score.t = "int"
        /\ e.priority_score.n \in 1..5
        /\ e.semantic_entities.isList /\ e.semantic_entities.len \in 3..5
        /\ e.paa_questions.isList /\ e.paa_questions.len >= 2
        /\ e.citations.isList /\ e.citations.len >= 1

\* One Pillar, every Cluster under it, every Spoke under some Cluster.
WellLinked(list) ==
    /\ PillarCount(list) = 1
    /\ \A k \in 1..Len(list) :
          Entry(list[k]).level = "Cluster"
          => \E p \in 1..Len(list) :
                 /\ Entry(list[p]).level = "Pillar"
                 /\ Entry(list[k]).parent_topic = Entry(list[p]).content_title
    /\ \A k \in 1..Len(list) :
          Entry(list[k]).level = "Spoke"
          => \E c \in 1..Len(list) :
                 /\ Entry(list[c]).level = "Cluster"
                 /\ Entry(list[k]).parent_topic = Entry(list[c]).content_title

\* C9: validate_topic_map returns no message for a list of valid entries
\* with exactly one Pillar, every Cluster's parent the Pillar's title and
\* every Spoke's parent some Cluster's title.
C9_ValidListHasNoMessages ==
    ( /\ v_pc = "returned"
      /\ \A k \in 1..Len(v_entries) : ValidEntry(v_entries[k])
      /\ WellLinked(v_entries) )
    => v_errors = <<>>

C9_Witness ==
    /\ v_pc = "returned"
    /\ v_entries = <<"P", "C", "S">>
    /\ v_errors = <<>>

\* the messages of v_errors that carry the prefix of the entry at 0-based index i
MessagesOf(i) == SelectSeq(v_errors, LAMBDA m : m.idx = i)

\* C10: an entry at index i that lacks k >= 1 required fields gets exactly
\* k messages, one per absent field and naming it, each prefixed with i and
\* the entry's title ("unknown" when the title is what is absent); it gets
\* no value-domain message, and the list gets no structural message.
C10_EachAbsentFieldReported ==
    v_pc = "returned"
    => \A i \in 1..Len(v_entries) :
          LET e == Entry(v_entries[i])
              absent == AllFields \ e.keys
              mine == MessagesOf(i - 1)
          IN  absent # {}
              => /\ Len(mine) = Cardinality(absent)
                 /\ \A f \in absent :
                        Cardinality({ k \in 1..Len(mine) : mine[k].strs = <<f>> }) = 1
                 /\ \A k \in 1..Len(mine) :
                        /\ mine[k].kind = MISSING
                        /\ mine[k].title = IF "content_title" \in e.keys
                                           THEN e.content_title ELSE "unknown"
                 /\ \A k \in 1..Len(v_errors) : v_errors[k].idx >= 0

C10_Witness ==
    /\ v_pc = "returned"
    /\ v_entries = <<"P", "M2">>
    /\ Len(v_errors) = 2
    /\ v_errors[2].strs = <<"priority_score">>

\* positions of v_errors holding a message of one of the kinds
OfKind(kinds) == { k \in 1..Len(v_errors) : v_errors[k].kind \in kinds }

\* C11: a list with zero or several Pillars (the empty list included) gets
\* exactly one "Expected exactly 1 Pillar" message and no parent-mismatch
\* message.
C11_PillarCountAlwaysReported ==
    (v_pc = "returned" /\ PillarCount(v_entries) # 1)
    => /\ Cardinality(OfKind({PILLAR_COUNT})) = 1
       /\ OfKind({CLUSTER_PARENT, SPOKE_PARENT}) = {}

\* the priority_score messages reported for the entry at 0-based index i
ScoreMessages(i) ==
    { k \in OfKind({INVALID_SCORE}) : v_errors[k].idx = i }

\* C12: a priority_score that is not an integer, or is outside 1..5, is
\* always reported for its entry; the values 1 and 5 never are.
C12_ScoreOutOfDomainReported ==
    v_pc = "returned"
    => \A i \in 1..Len(v_entries) :
          LET e == Entry(v_entries[i])
          IN  "priority_score" \in e.keys
              => /\ (e.priority_score.t # "int" \/ e.priority_score.n \notin 1..5)
                    => ScoreMessages(i - 1) # {}
                 /\ (e.priority_score.t = "int" /\ e.priority_score.n \in {1, 5})
                    => ScoreMessages(i - 1) = {}

\* positions of v_entries holding a Cluster whose non-empty parent is not
\* the title of the Pillar
StrayClusters ==
    { k \in 1..Len(v_entries) :
        /\ Entry(v_entries[k]).level = "Cluster"
        /\ Entry(v_entries[k]).parent_topic # ""
        /\ \E p \in 1..Len(v_entries) :
              /\ Entry(v_entries[p]).level = "Pillar"
              /\ Entry(v_entries[k]).parent_topic # Entry(v_entries[p]).content_title }

\* positions of v_entries holding a Spoke whose non-empty parent is the
\* title of no Cluster
StraySpokes ==
    { k \in 1..Len(v_entries) :
        /\ Entry(v_entries[k]).level = "Spoke"
        /\ Entry(v_entries[k]).parent_topic # ""
        /\ \A c \in 1..Len(v_entries) :
              Entry(v_entries[c]).level = "Cluster"
              => Entry(v_entries[k]).parent_topic # Entry(v_entries[c]).content_title }

\* the messages of one kind that name the entry titled t
Naming(kind, t) == { k \in OfKind({kind}) : v_errors[k].strs[1] = t }

\* C13: with every per-entry check passed and exactly one Pillar, the
\* messages are one per Cluster whose non-empty parent differs from the
\* Pillar's title and one per Spoke whose non-empty parent is no Cluster's
\* title, and nothing else: an empty parent is never reported, and a
\* mismatch does not end the checks.
C13_OneMessagePerMismatch ==
    ( /\ v_pc = "returned"
      /\ PerEntry(v_entries, 1) = <<>>
      /\ PillarCount(v_entries) = 1 )
    => /\ Cardinality(OfKind({CLUSTER_PARENT})) = Cardinality(StrayClusters)
       /\ Cardinality(OfKind({SPOKE_PARENT})) = Cardinality(StraySpokes)
       /\ Len(v_errors) = Cardinality(StrayClusters) + Cardinality(StraySpokes)
       /\ \A k \in StrayClusters :
              Cardinality(Naming(CLUSTER_PARENT, Entry(v_entries[k]).content_title))
              = Cardinality({ j \in StrayClusters : v_entries[j] = v_entries[k] })
       /\ \A k \in StraySpokes :
              Cardinality(Naming(SPOKE_PARENT, Entry(v_entries[k]).content_title))
              = Cardinality({ j \in StraySpokes : v_entries[j] = v_entries[k] })
       /\ \A k \in 1..Len(v_errors) : v_errors[k].idx = -1

C13_Witness ==
    /\ v_pc = "returned"
    /\ v_entries = <<"P", "Cx", "Sx">>
    /\ Len(v_errors) = 2
    /\ v_errors[1].kind = CLUSTER_PARENT
    /\ v_errors[2].kind = SPOKE_PARENT

\* the LLM calls of the current request, in the order they were issued
LLMCalls == SelectSeq(calls, LAMBDA c : c.kind # "research")
Kinds == [k \in 1..Len(LLMCalls) |-> LLMCalls[k].kind]
LastCall == LLMCalls[Len(LLMCalls)]

\* seconds waited once n rate-limit signals have each been followed by a retry
Waited(n) == CASE n = 0 -> 0 [] n = 1 -> 2 [] OTHER -> 2 + 4

\* C14: a logical LLM call makes at most 3 API attempts; a rate-limit signal
\* on attempt 1 and 2 is followed by a wait of 2 and 4 seconds and a new
\* attempt, on attempt 3 it is re-raised without a wait; a call that
\* returns or fails otherwise ends at that attempt with the waits made so far.
C14_AtMostThreeAttempts ==
    /\ attempt \in 0..2
    /\ pc = "calling" => slept = Waited(attempt)
    /\ \A k \in 1..Len(LLMCalls) :
          LLMCalls[k].status # "pending"
          => /\ LLMCalls[k].attempts \in 1..3
             /\ LLMCalls[k].slept = Waited(LLMCalls[k].attempts - 1)
             /\ LLMCalls[k].slept <= 6
    /\ (pc = "done" /\ outcome = RateLimitError)
       => (LastCall.status = "raised" /\ LastCall.attempts = 3)
    /\ (pc = "done" /\ LLMCalls # <<>> /\ LastCall.status = "raised" /\ LastCall.attempts < 3)
       => outcome = ApiError

C14_Witness ==
    /\ pc = "done"
    /\ outcome = RateLimitError
    /\ Kinds = <<"initial", "continuation">>
    /\ LLMCalls[1].attempts = 2
    /\ LLMCalls[1].slept = 2
    /\ LLMCalls[2].attempts = 3
    /\ LLMCalls[2].slept = 6

\* C15: the LLM calls of a request are initial, then at most one repair,
\* then at most one continuation; a call starts only when the one before
\* has returned; a call that fails is the last one, and a request that has
\* ended issues no further call.
C15_CallsInOrder ==
    /\ [](/\ Kinds \in { <<>>, <<"initial">>, <<"initial", "repair">>,
                         <<"initial", "continuation">>,
                         <<"initial", "repair", "continuation">> }
          /\ \A k \in 1..(Len(LLMCalls) - 1) : LLMCalls[k].status = "returned"
          /\ LLMCalls # <<>> => (LastCall.status = "pending" <=> pc = "calling")
          /\ (pc = "done" /\ outcome.kind \in {"rate_limit", "api_error"})
             => LastCall.status = "raised")
    /\ [][(pc = "done" /\ requests' = requests) => calls' = calls]_vars

C15_Witness ==
    /\ pc = "done"
    /\ Kinds = <<"initial", "repair", "continuation">>
    /\ outcome = RateLimitError
    /\ LLMCalls[1].status = "returned"
    /\ LLMCalls[2].status = "returned"
    /\ LLMCalls[3].status = "raised"

\* the decode the truncation path started from: the initial one, or the
\* repair's when the initial response gave no list
PreTruncation ==
    LET initial == _parse_json(raw_response)
    IN  IF initial.isNone THEN _parse_json(fix_response) ELSE initial

\* the decoded continuation response
ContinuationEntries == _parse_json(continuation)

\* the salvage of the original response: cleaned again, cut after its last
\* "}", closed with "]" and decoded
Salvage ==
    LET cleaned == _clean_json_response(raw_response)
        cut == RFindBrace(cleaned, Len(cleaned)) + 1
    IN  json_loads(SubSeq(cleaned, 1, cut) \o <<"]">>)

Succeeds(salvage) == salvage.ok /\ salvage.type = "list"

\* the continuation call of this request has returned
InTruncationPath == pc = "done" /\ HasReturned("continuation")

\* C16: when the continuation decodes to N >= 1 entries and the salvage of
\* the original decodes to M entries, the validated list is the M salvaged
\* entries followed by the N continuation entries.
C16_SalvagedThenContinuation ==
    InTruncationPath
    => LET more == ContinuationEntries
           salvage == Salvage
       IN  (~more.isNone /\ more.list # <<>> /\ Succeeds(salvage))
           => /\ validated = << salvage.items \o more.list >>
              /\ Len(FinalList) = Len(salvage.items) + Len(more.list)

C16_Witness ==
    /\ InTruncationPath
    /\ raw_response = CutMidObject(<<"P", "C">>)
    /\ ContinuationEntries = Some(<<"C0", "S0">>)
    /\ validated = << <<"P", "C", "C0", "S0">> >>

\* C17: when the continuation decodes to more than 10 entries and the
\* salvage of the original fails for any reason, the validated list is the
\* continuation entries alone.
C17_ContinuationAloneWhenNoSalvage ==
    InTruncationPath
    => LET more == ContinuationEntries
       IN  (~more.isNone /\ Len(more.list) > 10 /\ ~Succeeds(Salvage))
           => validated = << more.list >>

\* C18: when the continuation does not decode to a non-empty array, or the
\* salvage fails and the continuation has at most 10 entries, the entries
\* are the decode the truncation path started from, and that list is the
\* one validated.
C18_KeepsPreTruncationResult ==
    InTruncationPath
    => LET more == ContinuationEntries
           before == PreTruncation
       IN  ( \/ more.isNone
             \/ more.list = <<>>
             \/ (Len(more.list) <= 10 /\ ~Succeeds(Salvage)) )
           => /\ entries = before
              /\ validated = IF before.list = <<>> THEN <<>> ELSE << before.list >>

C18_Witness ==
    /\ InTruncationPath
    /\ raw_response = Wrapped(<<"P", "C">>)
    /\ ~Succeeds(Salvage)
    /\ ContinuationEntries = Some(<<"C0", "S0">>)
    /\ validated = << WellFormed >>

\* the texts cleaned so far in this request
Cleaned == {raw_response, fix_response, continuation}

\* a JSON array of the elements of list, with a trailing comma before its
\* closing bracket, wrapped in Markdown fences with or without the tag
FencedWithTrailingComma(list) ==
    { FencedTrailingComma(list),
      <<"fence", "json", "nl">> \o TrailingComma(list) \o <<"nl", "fence">>,
      <<"fence", "nl">> \o TrailingComma(list) \o <<"nl", "fence">> }

\* the text has a comma that is followed, after optional whitespace, by "]" or "}"
HasTrailingComma(text) ==
    \E k \in 1..Len(text) :
        /\ text[k] = ","
        /\ SkipWs(text, k + 1) <= Len(text)
        /\ text[SkipWs(text, k + 1)] \in Closers

HasFence(text) == \E k \in 1..Len(text) : text[k] = "fence"

\* C20: cleaning a fenced JSON array with a trailing comma gives text that
\* decodes to that array; text with no fence and no trailing comma comes
\* back unchanged but for its outer whitespace.
C20_CleaningKeepsTheArray ==
    \A text \in Cleaned :
        /\ \A list \in InitialLists \cup {<<"P", "C">>, <<"S">>} :
               (list # <<>> /\ text \in FencedWithTrailingComma(list))
               => (/\ json_loads(_clean_json_response(text)).ok
                   /\ json_loads(_clean_json_response(text)).type = "list"
                   /\ json_loads(_clean_json_response(text)).items = list)
        /\ (~HasFence(text) /\ ~HasTrailingComma(text))
           => _clean_json_response(text) = Strip(text)

\* what an invocation that received these texts does when it runs alone and
\* is never rate limited
RECURSIVE Replay(_)
Replay(texts) ==
    IF texts = <<>> THEN Calling(Idle, "initial")
    ELSE WorkerNextState(Replay(SubSeq(texts, 1, Len(texts) - 1)), texts[Len(texts)])

\* the locals of an invocation are what its own rate-limit signals and its
\* own responses make them
OnItsOwn(st) ==
    LET alone == Replay(st.texts)
    IN  st.pc # "idle"
        => /\ st.attempt = (IF st.pc = "calling" THEN st.signals ELSE 0)
           /\ st.slept = (IF st.pc = "calling" THEN Waited(st.signals) ELSE 0)
           /\ st.pc = "calling" => st.signals <= 2
           /\ st.outcome = RateLimitError => st.signals = 3
           /\ st.kinds = alone.kinds
           /\ st.outcome.kind \notin {"rate_limit", "api_error"}
              => /\ st.outcome = alone.outcome
                 /\ st.pc = alone.pc
                 /\ st.entries = alone.entries

\* C19: with several requests running at once, every step leaves each
\* request with an attempt counter and a backoff that count only the
\* rate-limit signals its own call received, with the rate-limit error only
\* after 3 signals of its own, and with the call sequence and outcome it has
\* when it runs alone on the same responses; and a step of one request
\* changes no other request.
C19_RequestsDoNotInterfere ==
    [][ /\ \A w \in 1..NWorkers : OnItsOwn(workers'[w])
        /\ \A v, w \in 1..NWorkers :
              v # w => (workers'[v] = workers[v] \/ workers'[w] = workers[w]) ]_vars

C19_Witness ==
    /\ workers[1].outcome = RateLimitError
    /\ workers[1].kinds = <<"initial">>
    /\ workers[2].pc = "done"
    /\ workers[2].kinds = <<"initial", "repair", "continuation">>
    /\ workers[2].outcome = Returned(<<"P", "C", "S">>)

\* C21: an initial response that decodes, after cleaning, to a non-empty
\* array (fenced or not) is followed by no repair and no continuation call,
\* and the list validated and returned is exactly the decoded array.
C21_DecodedInitialNeedsNoFurtherCall ==
    LET initial == _parse_json(raw_response)
    IN  (HasReturned("initial") /\ ~initial.isNone /\ initial.list # <<>>)
        => /\ ~Issued("repair")
           /\ ~Issued("continuation")
           /\ pc = "done" => validated = <<initial.list>>
           /\ outcome.kind = "returned" => outcome.value = initial.list

\* the failures generate_topic_map defines: rate limit exhausted, parse
\* error, empty result, validation error
DefinedFailures == {"rate_limit", "parse", "empty", "validation"}

\* every attempt of every call of the request was answered with text or
\* with a rate-limit error
AnsweredByLLM == Issued("initial") /\ outcome.kind # "api_error"

\* C22: whatever texts the LLM returns, a request that ends has returned a
\* list or failed with one of the defined failures, never with another
\* kind of error.
C22_EndsWithListOrDefinedFailure ==
    (pc = "done" /\ AnsweredByLLM)
    => outcome.kind \in {"returned"} \cup DefinedFailures

\* C23: a request fails with a validation error only if an entry of the
\* validated list lacks a required field or the list does not have exactly
\* one Pillar; every message the error carries is a missing-field or a
\* Pillar-count finding, whatever text the entries' values contain.
C23_OnlyCriticalFindingsFail ==
    outcome.kind = "validation"
    => /\ \/ \E k \in 1..Len(FinalList) : LacksField(FinalList[k])
          \/ PillarCount(FinalList) # 1
       /\ \A k \in 1..Len(outcome.msgs) : outcome.msgs[k].kind \in {MISSING, PILLAR_COUNT}

\* no request of the application is in progress
AtRest == pc \in {"idle", "done"}

\* C24: between requests the stored research_data, topic_map_topic and
\* topic_map_entries were all written by the same request (or are all
\* unset), and after a request of the application that succeeded that
\* request is the one that wrote them.
C24_SessionFromOneRequest ==
    AtRest
    => /\ session.research_data = session.topic_map_entries
       /\ session.topic_map_topic = session.topic_map_entries
       /\ (caller = "app" /\ outcome.kind = "returned")
          => session.topic_map_entries = requests

====
